---- MODULE Spec2Model ----
(***************************************************************************)
(* Model of Users/models.py: the tables of the artist directory, the       *)
(* save()/clean() overrides of the models and the on_delete rules of their *)
(* foreign keys.  A primary key of 0 stands for an unsaved instance        *)
(* (pk None): `if self.pk` is false for it.  Strings are sequences of      *)
(* one-character strings.                                                  *)
(***************************************************************************)
EXTENDS Integers, Sequences, FiniteSets, TLC

VARIABLES
    users,          \* CustomUser rows: set of pk
    lineas,         \* LineaArtistica rows: set of pk
    generos,        \* Genero rows: [pk, linea]
    profiles,       \* ArtistProfile rows: [pk, user]
    agrupaciones,   \* Agrupacion rows: [pk, nombre, slug, administrador]
    miembros,       \* Agrupacion.miembros rows: <<agrupacion pk, profile pk>>
    artGeneros,     \* ArtistProfile.generos rows: <<profile pk, genero pk>>
    agrGeneros,     \* Agrupacion.generos rows: <<agrupacion pk, genero pk>>
    artImgs,        \* ArtistImage rows: [pk, artist]
    grpImgs,        \* GroupImage rows: [pk, agrupacion]
    artSocial,      \* ArtistSocial rows: [pk, artist]
    grpSocial,      \* GroupSocial rows: [pk, agrupacion]
    nextPk,         \* per table, the next auto-increment key
    budget,         \* rows that may still be inserted (bounds the model)
    last,           \* the last operation and its outcome
    wpc,            \* per concurrent writer: its position inside save()
    wloc            \* per concurrent writer: the locals of its save()

dbvars == <<users, lineas, generos, profiles, agrupaciones, miembros, artGeneros,
            agrGeneros, artImgs, grpImgs, artSocial, grpSocial>>
wvars == <<wpc, wloc>>
vars == <<users, lineas, generos, profiles, agrupaciones, miembros, artGeneros,
          agrGeneros, artImgs, grpImgs, artSocial, grpSocial, nextPk, budget, last,
          wpc, wloc>>

\* ---------------------------------------------------------------- bounds
MaxImages == 6
MaxAgrupaciones == 2
NumGeneros == 4
MaxRecords == 1
MaxGeneroOwners == 1
MaxLineaRows == 5
NumWriters == 2

\* ------------------------------------------------------ program constants
MaxImagenes == 5
MaxGenerosCount == 3
SlugBaseLen == 180

Tables == {"CustomUser", "LineaArtistica", "Genero", "ArtistProfile", "Agrupacion",
           "ArtistImage", "GroupImage", "ArtistSocial", "GroupSocial"}

Writers == 1..NumWriters

NoOp == [model |-> "", op |-> "", pk |-> 0, owner |-> 0, res |-> ""]

Op(model, op, pk, owner, res) ==
    [model |-> model, op |-> op, pk |-> pk, owner |-> owner, res |-> res]

Pks(rows) == {r.pk : r \in rows}

\* ------------------------------------------------- ArtistImage / GroupImage

\* a variant of ArtistImage.clean that compares with > where the code has >=
ArtistImage_clean_off_by_one(pk, artist) ==
    LET existing == IF pk # 0
                    THEN Cardinality({i \in artImgs : i.artist = artist /\ i.pk # pk})
                    ELSE Cardinality({i \in artImgs : i.artist = artist})
    IN  IF existing > MaxImagenes THEN "ValidationError" ELSE "ok"

\* ArtistImage.clean: "ok", or the exception it raises
ArtistImage_clean(pk, artist) ==
    LET existing == IF pk # 0
                    THEN Cardinality({i \in artImgs : i.artist = artist /\ i.pk # pk})
                    ELSE Cardinality({i \in artImgs : i.artist = artist})
    IN  IF existing >= MaxImagenes THEN "ValidationError" ELSE "ok"

\* super().save() of an ArtistImage: INSERT under a fresh key when pk is unset,
\* otherwise UPDATE the row of that key (INSERT it when no row has the key)
ArtistImage_write(pk, artist) ==
    LET key == IF pk = 0 THEN nextPk.ArtistImage ELSE pk
    IN  /\ pk = 0 => budget > 0
        /\ artImgs' = {i \in artImgs : i.pk # key} \cup {[pk |-> key, artist |-> artist]}
        /\ nextPk' = IF pk = 0 THEN [nextPk EXCEPT !.ArtistImage = @ + 1] ELSE nextPk
        /\ budget' = IF pk = 0 THEN budget - 1 ELSE budget

\* ArtistImage.save: clean(), then super().save()
ArtistImage_save(pk, artist) ==
    LET r == ArtistImage_clean(pk, artist)
    IN  /\ last' = Op("ArtistImage", "save", pk, artist, r)
        /\ IF r = "ok"
           THEN ArtistImage_write(pk, artist)
           ELSE UNCHANGED <<artImgs, nextPk, budget>>
        /\ UNCHANGED <<users, lineas, generos, profiles, agrupaciones, miembros,
                       artGeneros, agrGeneros, grpImgs, artSocial, grpSocial, wvars>>

ArtistImage_delete(pk) ==
    /\ pk \in Pks(artImgs)
    /\ artImgs' = {i \in artImgs : i.pk # pk}
    /\ last' = Op("ArtistImage", "delete", pk, 0, "ok")
    /\ UNCHANGED <<users, lineas, generos, profiles, agrupaciones, miembros,
                   artGeneros, agrGeneros, grpImgs, artSocial, grpSocial, nextPk,
                   budget, wvars>>

\* a variant of GroupImage.clean that compares with > where the code has >=
GroupImage_clean_off_by_one(pk, agrupacion) ==
    LET existing == IF pk # 0
                    THEN Cardinality({i \in grpImgs : i.agrupacion = agrupacion /\ i.pk # pk})
                    ELSE Cardinality({i \in grpImgs : i.agrupacion = agrupacion})
    IN  IF existing > MaxImagenes THEN "ValidationError" ELSE "ok"

\* GroupImage.clean: "ok", or the exception it raises
GroupImage_clean(pk, agrupacion) ==
    LET existing == IF pk # 0
                    THEN Cardinality({i \in grpImgs : i.agrupacion = agrupacion /\ i.pk # pk})
                    ELSE Cardinality({i \in grpImgs : i.agrupacion = agrupacion})
    IN  IF existing >= MaxImagenes THEN "ValidationError" ELSE "ok"

GroupImage_write(pk, agrupacion) ==
    LET key == IF pk = 0 THEN nextPk.GroupImage ELSE pk
    IN  /\ pk = 0 => budget > 0
        /\ grpImgs' = {i \in grpImgs : i.pk # key}
                          \cup {[pk |-> key, agrupacion |-> agrupacion]}
        /\ nextPk' = IF pk = 0 THEN [nextPk EXCEPT !.GroupImage = @ + 1] ELSE nextPk
        /\ budget' = IF pk = 0 THEN budget - 1 ELSE budget

GroupImage_save(pk, agrupacion) ==
    LET r == GroupImage_clean(pk, agrupacion)
    IN  /\ last' = Op("GroupImage", "save", pk, agrupacion, r)
        /\ IF r = "ok"
           THEN GroupImage_write(pk, agrupacion)
           ELSE UNCHANGED <<grpImgs, nextPk, budget>>
        /\ UNCHANGED <<users, lineas, generos, profiles, agrupaciones, miembros,
                       artGeneros, agrGeneros, artImgs, artSocial, grpSocial, wvars>>

GroupImage_delete(pk) ==
    /\ pk \in Pks(grpImgs)
    /\ grpImgs' = {i \in grpImgs : i.pk # pk}
    /\ last' = Op("GroupImage", "delete", pk, 0, "ok")
    /\ UNCHANGED <<users, lineas, generos, profiles, agrupaciones, miembros,
                   artGeneros, agrGeneros, artImgs, artSocial, grpSocial, nextPk,
                   budget, wvars>>

\* ------------------------------------------------------------ image scenario
\* Two artists and two groups exist; images are created, re-saved (possibly under
\* another owner) and deleted, one operation at a time.
TwoUsers == {1, 2}
TwoProfiles == {[pk |-> 1, user |-> 1], [pk |-> 2, user |-> 2]}
TwoAgrupaciones ==
    {[pk |-> 1, nombre |-> <<"a">>, slug |-> <<"a">>, administrador |-> 1],
     [pk |-> 2, nombre |-> <<"a">>, slug |-> <<"a", "-", "1">>, administrador |-> 2]}

InitPk(u, l, g, p, a) ==
    [t \in Tables |-> CASE t = "CustomUser" -> u + 1
                        [] t = "LineaArtistica" -> l + 1
                        [] t = "Genero" -> g + 1
                        [] t = "ArtistProfile" -> p + 1
                        [] t = "Agrupacion" -> a + 1
                        [] OTHER -> 1]

InitImages ==
    /\ users = TwoUsers
    /\ profiles = TwoProfiles
    /\ agrupaciones = TwoAgrupaciones
    /\ lineas = {} /\ generos = {} /\ miembros = {} /\ artGeneros = {} /\ agrGeneros = {}
    /\ artImgs = {} /\ grpImgs = {} /\ artSocial = {} /\ grpSocial = {}
    /\ nextPk = InitPk(2, 0, 0, 2, 2)
    /\ budget = MaxImages
    /\ last = NoOp
    /\ wpc = [w \in Writers |-> "idle"]
    /\ wloc = [w \in Writers |-> NoOp]

NextImages ==
    \/ \E a \in Pks(profiles) : ArtistImage_save(0, a)
    \/ \E a \in Pks(profiles) : \E pk \in 1..(nextPk.ArtistImage - 1) : ArtistImage_save(pk, a)
    \/ \E pk \in Pks(artImgs) : ArtistImage_delete(pk)
    \/ \E g \in Pks(agrupaciones) : GroupImage_save(0, g)
    \/ \E g \in Pks(agrupaciones) : \E pk \in 1..(nextPk.GroupImage - 1) : GroupImage_save(pk, g)
    \/ \E pk \in Pks(grpImgs) : GroupImage_delete(pk)

SpecImages == InitImages /\ [][NextImages]_vars

ArtistCount(a) == Cardinality({i \in artImgs : i.artist = a})
GroupCount(g) == Cardinality({i \in grpImgs : i.agrupacion = g})

\* C1: after any sequence of ArtistImage/GroupImage saves and deletes, every
\* ArtistProfile and every Agrupacion owns at most 5 image rows.
C1_AtMostFiveImages ==
    /\ \A a \in Pks(profiles) : ArtistCount(a) <= MaxImagenes
    /\ \A g \in Pks(agrupaciones) : GroupCount(g) <= MaxImagenes

\* C1 witness: an owner is full (5 images) and the re-save of an image of another
\* owner under the full owner has just been rejected.
C1_Witness ==
    /\ last.op = "save" /\ last.pk # 0 /\ last.res = "ValidationError"
    /\ \/ /\ last.model = "ArtistImage" /\ ArtistCount(last.owner) = MaxImagenes
          /\ \E i \in artImgs : i.pk = last.pk /\ i.artist # last.owner
       \/ /\ last.model = "GroupImage" /\ GroupCount(last.owner) = MaxImagenes
          /\ \E i \in grpImgs : i.pk = last.pk /\ i.agrupacion # last.owner
\* A step that saves a new image (pk unset) succeeds and writes exactly the new row
\* when its owner has fewer than n images, and otherwise raises ValidationError
\* and writes nothing.
NewImageSavedUpTo(n) ==
    /\ (last'.model = "ArtistImage" /\ last'.op = "save" /\ last'.pk = 0) =>
          IF ArtistCount(last'.owner) < n
          THEN /\ last'.res = "ok"
               /\ artImgs' = artImgs \cup {[pk |-> nextPk.ArtistImage, artist |-> last'.owner]}
               /\ nextPk.ArtistImage \notin Pks(artImgs)
          ELSE last'.res = "ValidationError" /\ artImgs' = artImgs
    /\ (last'.model = "GroupImage" /\ last'.op = "save" /\ last'.pk = 0) =>
          IF GroupCount(last'.owner) < n
          THEN /\ last'.res = "ok"
               /\ grpImgs' = grpImgs \cup {[pk |-> nextPk.GroupImage, agrupacion |-> last'.owner]}
               /\ nextPk.GroupImage \notin Pks(grpImgs)
          ELSE last'.res = "ValidationError" /\ grpImgs' = grpImgs

\* C2 as stated: saving a new image succeeds for the 1st to 4th image of an owner
\* and raises ValidationError, writing nothing, for the 5th and every later one.
C2_FifthSaveRaises == [][NewImageSavedUpTo(MaxImagenes - 1)]_vars

\* C2 amended: saving a new image succeeds for the 1st to 5th image of an owner and
\* raises ValidationError, writing nothing, for the 6th and every later one.
C2_SixthSaveRaises == [][NewImageSavedUpTo(MaxImagenes)]_vars

\* C2 witness: the save of a 6th new image of an owner has just been rejected.
C2_Witness ==
    /\ last.op = "save" /\ last.pk = 0 /\ last.res = "ValidationError"
    /\ \/ last.model = "ArtistImage" /\ ArtistCount(last.owner) = MaxImagenes
       \/ last.model = "GroupImage" /\ GroupCount(last.owner) = MaxImagenes
\* ----------------------------------------------------------------- slugify
Min(a, b) == IF a < b THEN a ELSE b

\* The names of the scenarios are written with the characters a, A, 1, space, !,
\* hyphen and underscore; the character classes below are cut to that alphabet.
Lower(c) == IF c = "A" THEN "a" ELSE c

IsWordChar(c) == c \in {"a", "A", "1", "_"}
IsSep(c) == c \in {"-", " "}

\* re.sub(r'[-\s]+', '-', s): the first character of each run of spaces and
\* hyphens becomes one hyphen, the rest of the run is dropped
Collapse(s) ==
    LET first == SelectSeq([i \in 1..Len(s) |-> i],
                           LAMBDA i : ~IsSep(s[i]) \/ i = 1 \/ ~IsSep(s[i - 1]))
    IN  [j \in 1..Len(first) |-> IF IsSep(s[first[j]]) THEN "-" ELSE s[first[j]]]

\* s.strip('-_')
Strip(s) ==
    LET n == Len(s)
        inner(i) == s[i] \notin {"-", "_"}
    IN  IF \A i \in 1..n : ~inner(i) THEN <<>>
        ELSE SubSeq(s, CHOOSE i \in 1..n : inner(i) /\ \A j \in 1..(i - 1) : ~inner(j),
                       n - (CHOOSE k \in 0..(n - 1) :
                               inner(n - k) /\ \A j \in 0..(k - 1) : ~inner(n - j)))

\* django.utils.text.slugify on ASCII input: lower-case, drop every character
\* that is no word character, space or hyphen, turn each run of spaces and
\* hyphens into one hyphen, strip hyphens and underscores from both ends
slugify(value) ==
    LET lowered == [i \in 1..Len(value) |-> Lower(value[i])]
        kept == SelectSeq(lowered, LAMBDA c : IsWordChar(c) \/ IsSep(c))
    IN  Strip(Collapse(kept))

DigitChars == <<"0", "1", "2", "3", "4", "5", "6", "7", "8", "9">>

RECURSIVE str(_)
\* the decimal digits of a non-negative integer, as f"{counter}" formats it
str(n) == IF n < 10 THEN <<DigitChars[n + 1]>>
          ELSE str(n \div 10) \o <<DigitChars[(n % 10) + 1]>>

\* --------------------------------------------------------------- Agrupacion
\* slugify(self.nombre)[:180]
Agrupacion_base(nombre) ==
    LET full == slugify(nombre) IN SubSeq(full, 1, Min(Len(full), SlugBaseLen))

\* Agrupacion.objects.filter(slug=slug).exists()
Agrupacion_slug_exists(slug) == \E g \in agrupaciones : g.slug = slug

RECURSIVE Agrupacion_probe(_, _, _)
\* the while loop of Agrupacion.save, entered with slug = base and counter = 1
Agrupacion_probe(base, slug, counter) ==
    IF Agrupacion_slug_exists(slug)
    THEN Agrupacion_probe(base, base \o <<"-">> \o str(counter), counter + 1)
    ELSE slug

\* a variant of the slug generation that takes the base without probing
Agrupacion_save_slug_unprobed(nombre, slug) ==
    IF slug = <<>> THEN Agrupacion_base(nombre) ELSE slug

\* the slug Agrupacion.save leaves in self.slug
Agrupacion_save_slug(nombre, slug) ==
    IF slug = <<>>
    THEN LET base == Agrupacion_base(nombre) IN Agrupacion_probe(base, base, 1)
    ELSE slug

\* a variant of the storage without the unique constraint of the slug column
Agrupacion_write_result_no_unique(key, slug) == "ok"

\* super().save() of an Agrupacion: INSERT or UPDATE under the unique constraint of
\* the slug column; "ok" or the exception the storage raises
Agrupacion_write_result(key, slug) ==
    IF \E g \in agrupaciones : g.pk # key /\ g.slug = slug
    THEN "IntegrityError" ELSE "ok"

Agrupacion_write(pk, nombre, slug, administrador) ==
    LET key == IF pk = 0 THEN nextPk.Agrupacion ELSE pk
    IN  IF Agrupacion_write_result(key, slug) = "ok"
        THEN /\ pk = 0 => budget > 0
             /\ agrupaciones' = {g \in agrupaciones : g.pk # key} \cup
                   {[pk |-> key, nombre |-> nombre, slug |-> slug,
                     administrador |-> administrador]}
             /\ nextPk' = IF pk = 0 THEN [nextPk EXCEPT !.Agrupacion = @ + 1] ELSE nextPk
             /\ budget' = IF pk = 0 THEN budget - 1 ELSE budget
        ELSE UNCHANGED <<agrupaciones, nextPk, budget>>

\* Agrupacion.save of an instance with the given field values
Agrupacion_save(pk, nombre, slug, administrador) ==
    LET s == Agrupacion_save_slug(nombre, slug)
        key == IF pk = 0 THEN nextPk.Agrupacion ELSE pk
    IN  /\ Agrupacion_write(pk, nombre, s, administrador)
        /\ last' = Op("Agrupacion", "save", pk, administrador,
                      Agrupacion_write_result(key, s))
        /\ UNCHANGED <<users, lineas, generos, profiles, miembros, artGeneros,
                       agrGeneros, artImgs, grpImgs, artSocial, grpSocial, wvars>>

\* Agrupacion.clean: "ok", or the exception it raises
Agrupacion_clean(pk) ==
    IF pk # 0
    THEN IF Cardinality({x \in agrGeneros : x[1] = pk}) > MaxGenerosCount
         THEN "ValidationError" ELSE "ok"
    ELSE "ok"

\* a caller invoking clean() on an Agrupacion instance
Agrupacion_validate(pk) ==
    /\ last' = Op("Agrupacion", "clean", pk, 0, Agrupacion_clean(pk))
    /\ UNCHANGED <<dbvars, nextPk, budget, wvars>>
\* ------------------------------------------------------------ delete rules
\* ArtistProfile.user is on_delete=CASCADE: the profiles deleted with the users us
Cascade_profiles(us) == {p.pk : p \in {q \in profiles : q.user \in us}}

\* a variant in which the groups of a deleted administrator are kept
Cascade_agrupaciones_kept(us) == {}

\* Agrupacion.administrador is on_delete=CASCADE: the groups deleted with users us
Cascade_agrupaciones(us) == {g.pk : g \in {h \in agrupaciones : h.administrador \in us}}

\* The rows left in each table once the users us, the profiles ps and the groups gs
\* are deleted together with everything that references them through a CASCADE
\* foreign key or a many-to-many row.
Collect(us, ps, gs) ==
    LET P == ps \cup Cascade_profiles(us)
        G == gs \cup Cascade_agrupaciones(us)
    IN  /\ users' = users \ us
        /\ profiles' = {p \in profiles : p.pk \notin P}
        /\ agrupaciones' = {g \in agrupaciones : g.pk \notin G}
        /\ miembros' = {m \in miembros : m[1] \notin G /\ m[2] \notin P}
        /\ artGeneros' = {x \in artGeneros : x[1] \notin P}
        /\ agrGeneros' = {x \in agrGeneros : x[1] \notin G}
        /\ artImgs' = {i \in artImgs : i.artist \notin P}
        /\ artSocial' = {r \in artSocial : r.artist \notin P}
        /\ grpImgs' = {i \in grpImgs : i.agrupacion \notin G}
        /\ grpSocial' = {r \in grpSocial : r.agrupacion \notin G}
        /\ UNCHANGED <<lineas, generos, nextPk, budget, wvars>>

CustomUser_delete(pk) ==
    /\ pk \in users
    /\ Collect({pk}, {}, {})
    /\ last' = Op("CustomUser", "delete", pk, 0, "ok")

ArtistProfile_delete(pk) ==
    /\ pk \in Pks(profiles)
    /\ Collect({}, {pk}, {})
    /\ last' = Op("ArtistProfile", "delete", pk, 0, "ok")

Agrupacion_delete(pk) ==
    /\ pk \in Pks(agrupaciones)
    /\ Collect({}, {}, {pk})
    /\ last' = Op("Agrupacion", "delete", pk, 0, "ok")

\* ------------------------------------------------------------- slug scenario
\* One user creates groups with blank slugs, renames and re-saves them, validates
\* and deletes them, one operation at a time.
LongName == [i \in 1..(SlugBaseLen + 1) |-> "a"]

Nombres == {<<"a">>, <<"A">>, <<"A", " ", "1">>, <<"!">>, LongName}

InitSlug ==
    /\ users = {1}
    /\ profiles = {} /\ agrupaciones = {}
    /\ lineas = {} /\ generos = {} /\ miembros = {} /\ artGeneros = {} /\ agrGeneros = {}
    /\ artImgs = {} /\ grpImgs = {} /\ artSocial = {} /\ grpSocial = {}
    /\ nextPk = InitPk(1, 0, 0, 0, 0)
    /\ budget = MaxAgrupaciones
    /\ last = NoOp
    /\ wpc = [w \in Writers |-> "idle"]
    /\ wloc = [w \in Writers |-> NoOp]

NextSlug ==
    \/ \E n \in Nombres : \E u \in users : Agrupacion_save(0, n, <<>>, u)
    \/ \E g \in agrupaciones : \E n \in Nombres :
          Agrupacion_save(g.pk, n, g.slug, g.administrador)
    \/ \E g \in agrupaciones : Agrupacion_validate(g.pk)
    \/ \E g \in agrupaciones : Agrupacion_delete(g.pk)

SpecSlug == InitSlug /\ [][NextSlug]_vars

Row(pk) == CHOOSE g \in agrupaciones : g.pk = pk

\* the k-th candidate slug of a base: the base itself, then base-1, base-2, ...
Candidate(base, k) == IF k = 0 THEN base ELSE base \o <<"-">> \o str(k)

SlugsDistinct ==
    \A g \in agrupaciones : \A h \in agrupaciones : g.pk # h.pk => g.slug # h.slug

\* A step that saves an Agrupacion whose slug is blank (a new one, or a persisted
\* one whose stored slug is blank) stores the first free candidate of its base.
BlankSlugSaved ==
    LET key == IF last'.pk = 0 THEN nextPk.Agrupacion ELSE last'.pk
        blank == last'.pk = 0 \/ Row(key).slug = <<>>
        taken == {g.slug : g \in agrupaciones}
    IN  (last'.model = "Agrupacion" /\ last'.op = "save" /\ blank) =>
           /\ last'.res = "ok"
           /\ \E r \in agrupaciones' :
                 /\ r.pk = key
                 /\ \E k \in 0..Cardinality(agrupaciones) :
                       /\ r.slug = Candidate(Agrupacion_base(r.nombre), k)
                       /\ r.slug \notin taken
                       /\ \A j \in 0..(k - 1) :
                             Candidate(Agrupacion_base(r.nombre), j) \in taken

\* C3: saving an Agrupacion whose slug is blank stores base (slugify(nombre)[:180])
\* when no persisted Agrupacion has it, otherwise base-k for the smallest k >= 1
\* that no persisted Agrupacion has; all persisted slugs stay pairwise distinct.
C3_FirstFreeSlug == [][BlankSlugSaved /\ SlugsDistinct']_vars

\* C3 witness: a group just created with a blank slug found its non-empty base
\* taken by a group of the same name and was stored as base-1.
C3_Witness ==
    /\ last.model = "Agrupacion" /\ last.op = "save" /\ last.pk = 0 /\ last.res = "ok"
    /\ \E g \in agrupaciones :
          /\ g.pk = nextPk.Agrupacion - 1
          /\ Agrupacion_base(g.nombre) # <<>>
          /\ g.slug = Candidate(Agrupacion_base(g.nombre), 1)
          /\ \E h \in agrupaciones : h.nombre = g.nombre /\ h.slug = Agrupacion_base(g.nombre)

\* C9 as stated: re-saving a persisted Agrupacion, renamed or not, and validating
\* it leave its stored slug unchanged.
C9_SlugNeverChanges ==
    [][(last'.model = "Agrupacion" /\ last'.op \in {"save", "clean"} /\ last'.pk # 0) =>
          \E r \in agrupaciones' : r.pk = last'.pk /\ r.slug = Row(last'.pk).slug]_vars
\* ------------------------------------------------------------ ArtistProfile
\* a variant of ArtistProfile.clean that compares with >= where the code has >
ArtistProfile_clean_at_three(pk) ==
    LET generos_count == IF pk # 0 THEN Cardinality({x \in artGeneros : x[1] = pk}) ELSE 0
    IN  IF generos_count >= MaxGenerosCount THEN "ValidationError" ELSE "ok"

\* ArtistProfile.clean: "ok", or the exception it raises
ArtistProfile_clean(pk) ==
    LET generos_count == IF pk # 0 THEN Cardinality({x \in artGeneros : x[1] = pk}) ELSE 0
    IN  IF generos_count > MaxGenerosCount THEN "ValidationError" ELSE "ok"

\* a caller invoking clean() on an ArtistProfile instance
ArtistProfile_validate(pk) ==
    /\ last' = Op("ArtistProfile", "clean", pk, 0, ArtistProfile_clean(pk))
    /\ UNCHANGED <<dbvars, nextPk, budget, wvars>>

\* a variant in which saving an ArtistProfile calls clean() first
ArtistProfile_save_result_validating(pk, user) ==
    IF ArtistProfile_clean(pk) # "ok" THEN ArtistProfile_clean(pk)
    ELSE IF \E p \in profiles : p.pk # pk /\ p.user = user THEN "IntegrityError"
    ELSE "ok"

\* The outcome of saving an ArtistProfile: the class does not override save(), so
\* nothing but the one-to-one constraint of its user column can refuse the row.
ArtistProfile_save_result(pk, user) ==
    IF \E p \in profiles : p.pk # pk /\ p.user = user THEN "IntegrityError" ELSE "ok"

ArtistProfile_save(pk, user) ==
    LET key == IF pk = 0 THEN nextPk.ArtistProfile ELSE pk
        r == ArtistProfile_save_result(pk, user)
    IN  /\ last' = Op("ArtistProfile", "save", pk, user, r)
        /\ IF r = "ok"
           THEN /\ pk = 0 => budget > 0
                /\ profiles' = {p \in profiles : p.pk # key} \cup
                                  {[pk |-> key, user |-> user]}
                /\ nextPk' = IF pk = 0 THEN [nextPk EXCEPT !.ArtistProfile = @ + 1]
                             ELSE nextPk
                /\ budget' = IF pk = 0 THEN budget - 1 ELSE budget
           ELSE UNCHANGED <<profiles, nextPk, budget>>
        /\ UNCHANGED <<users, lineas, generos, agrupaciones, miembros, artGeneros,
                       agrGeneros, artImgs, grpImgs, artSocial, grpSocial, wvars>>

\* artist.generos.add(genero) / artist.generos.remove(genero)
ArtistProfile_generos_add(pk, genero) ==
    /\ artGeneros' = artGeneros \cup {<<pk, genero>>}
    /\ last' = Op("ArtistProfile", "generos.add", pk, 0, "ok")
    /\ UNCHANGED <<users, lineas, generos, profiles, agrupaciones, miembros, agrGeneros,
                   artImgs, grpImgs, artSocial, grpSocial, nextPk, budget, wvars>>

ArtistProfile_generos_remove(pk, genero) ==
    /\ <<pk, genero>> \in artGeneros
    /\ artGeneros' = artGeneros \ {<<pk, genero>>}
    /\ last' = Op("ArtistProfile", "generos.remove", pk, 0, "ok")
    /\ UNCHANGED <<users, lineas, generos, profiles, agrupaciones, miembros, agrGeneros,
                   artImgs, grpImgs, artSocial, grpSocial, nextPk, budget, wvars>>

\* agrupacion.generos.add(genero) / agrupacion.generos.remove(genero)
Agrupacion_generos_add(pk, genero) ==
    /\ agrGeneros' = agrGeneros \cup {<<pk, genero>>}
    /\ last' = Op("Agrupacion", "generos.add", pk, 0, "ok")
    /\ UNCHANGED <<users, lineas, generos, profiles, agrupaciones, miembros, artGeneros,
                   artImgs, grpImgs, artSocial, grpSocial, nextPk, budget, wvars>>

Agrupacion_generos_remove(pk, genero) ==
    /\ <<pk, genero>> \in agrGeneros
    /\ agrGeneros' = agrGeneros \ {<<pk, genero>>}
    /\ last' = Op("Agrupacion", "generos.remove", pk, 0, "ok")
    /\ UNCHANGED <<users, lineas, generos, profiles, agrupaciones, miembros, artGeneros,
                   artImgs, grpImgs, artSocial, grpSocial, nextPk, budget, wvars>>

\* ------------------------------------------------------------ genre scenario
\* One user and NumGeneros genres of one line exist.  Profiles and groups are
\* validated before and after their first save, saved again, and given and
\* deprived of genres, one operation at a time.
InitGeneros ==
    /\ users = {1}
    /\ lineas = {1}
    /\ generos = {[pk |-> g, linea |-> 1] : g \in 1..NumGeneros}
    /\ profiles = {} /\ agrupaciones = {}
    /\ miembros = {} /\ artGeneros = {} /\ agrGeneros = {}
    /\ artImgs = {} /\ grpImgs = {} /\ artSocial = {} /\ grpSocial = {}
    /\ nextPk = InitPk(1, 1, NumGeneros, 0, 0)
    /\ budget = MaxGeneroOwners
    /\ last = NoOp
    /\ wpc = [w \in Writers |-> "idle"]
    /\ wloc = [w \in Writers |-> NoOp]

NextGeneros ==
    \/ ArtistProfile_validate(0)
    \/ \E p \in profiles : ArtistProfile_validate(p.pk)
    \/ \E u \in users : ArtistProfile_save(0, u)
    \/ \E p \in profiles : ArtistProfile_save(p.pk, p.user)
    \/ \E p \in profiles : \E g \in generos : ArtistProfile_generos_add(p.pk, g.pk)
    \/ \E p \in profiles : \E g \in generos : ArtistProfile_generos_remove(p.pk, g.pk)
    \/ Agrupacion_validate(0)
    \/ \E a \in agrupaciones : Agrupacion_validate(a.pk)
    \/ \E u \in users : Agrupacion_save(0, <<"a">>, <<>>, u)
    \/ \E a \in agrupaciones : Agrupacion_save(a.pk, a.nombre, a.slug, a.administrador)
    \/ \E a \in agrupaciones : \E g \in generos : Agrupacion_generos_add(a.pk, g.pk)
    \/ \E a \in agrupaciones : \E g \in generos : Agrupacion_generos_remove(a.pk, g.pk)

SpecGeneros == InitGeneros /\ [][NextGeneros]_vars

ArtistGeneros(pk) == {x[2] : x \in {y \in artGeneros : y[1] = pk}}
AgrupacionGeneros(pk) == {x[2] : x \in {y \in agrGeneros : y[1] = pk}}

\* C4: clean() of an ArtistProfile or Agrupacion raises ValidationError exactly
\* when the instance has a persisted key and more than 3 genre rows; with 0 to 3
\* genres, or for an unsaved instance, it passes.
C4_CleanRaisesOverThree ==
    /\ (last.model = "ArtistProfile" /\ last.op = "clean") =>
          (last.res = "ValidationError" <=>
              (last.pk # 0 /\ Cardinality(ArtistGeneros(last.pk)) > MaxGenerosCount))
    /\ (last.model = "Agrupacion" /\ last.op = "clean") =>
          (last.res = "ValidationError" <=>
              (last.pk # 0 /\ Cardinality(AgrupacionGeneros(last.pk)) > MaxGenerosCount))
    /\ last.op = "clean" => last.res \in {"ok", "ValidationError"}

\* C4 witness: clean() has just raised on a persisted profile or group with 4 genres.
C4_Witness ==
    /\ last.op = "clean" /\ last.res = "ValidationError" /\ last.pk # 0
    /\ \/ last.model = "ArtistProfile" /\ Cardinality(ArtistGeneros(last.pk)) = MaxGenerosCount + 1
       \/ last.model = "Agrupacion" /\ Cardinality(AgrupacionGeneros(last.pk)) = MaxGenerosCount + 1

\* A step that saves an ArtistProfile or Agrupacion, or adds a genre to one, never
\* raises ValidationError, whatever the genre count: the save leaves the genre
\* rows as they are and the add stores the new row.
SaveAndAddSkipGenreCheck ==
    /\ (last'.model \in {"ArtistProfile", "Agrupacion"} /\ last'.op = "save") =>
          /\ last'.res # "ValidationError"
          /\ artGeneros' = artGeneros /\ agrGeneros' = agrGeneros
    /\ (last'.model = "ArtistProfile" /\ last'.op = "generos.add") =>
          /\ last'.res = "ok"
          /\ \E g \in generos : artGeneros' = artGeneros \cup {<<last'.pk, g.pk>>}
    /\ (last'.model = "Agrupacion" /\ last'.op = "generos.add") =>
          /\ last'.res = "ok"
          /\ \E g \in generos : agrGeneros' = agrGeneros \cup {<<last'.pk, g.pk>>}

\* C8: saving an ArtistProfile or Agrupacion and adding genres never run the max-3
\* check, so a persisted entity can hold more than 3 genres and keeps them across
\* further saves.
C8_SaveSkipsGenreCheck == [][SaveAndAddSkipGenreCheck]_vars

\* C8 witness: a persisted profile or group holding more than 3 genres has just
\* been saved again without error.
C8_Witness ==
    /\ last.op = "save" /\ last.pk # 0 /\ last.res = "ok"
    /\ \/ last.model = "ArtistProfile" /\ Cardinality(ArtistGeneros(last.pk)) > MaxGenerosCount
       \/ last.model = "Agrupacion" /\ Cardinality(AgrupacionGeneros(last.pk)) > MaxGenerosCount
\* ------------------------------------------------- LineaArtistica and Genero
LineaArtistica_save(pk) ==
    /\ pk = 0 /\ budget > 0
    /\ lineas' = lineas \cup {nextPk.LineaArtistica}
    /\ nextPk' = [nextPk EXCEPT !.LineaArtistica = @ + 1]
    /\ budget' = budget - 1
    /\ last' = Op("LineaArtistica", "save", pk, 0, "ok")
    /\ UNCHANGED <<users, generos, profiles, agrupaciones, miembros, artGeneros,
                   agrGeneros, artImgs, grpImgs, artSocial, grpSocial, wvars>>

\* Genero.save with its linea set; for a persisted Genero this moves it to the line
Genero_save(pk, linea) ==
    LET key == IF pk = 0 THEN nextPk.Genero ELSE pk
    IN  /\ pk = 0 => budget > 0
        /\ generos' = {g \in generos : g.pk # key} \cup {[pk |-> key, linea |-> linea]}
        /\ nextPk' = IF pk = 0 THEN [nextPk EXCEPT !.Genero = @ + 1] ELSE nextPk
        /\ budget' = IF pk = 0 THEN budget - 1 ELSE budget
        /\ last' = Op("Genero", "save", pk, linea, "ok")
        /\ UNCHANGED <<users, lineas, profiles, agrupaciones, miembros, artGeneros,
                       agrGeneros, artImgs, grpImgs, artSocial, grpSocial, wvars>>

\* deleting a Genero drops its rows of both generos many-to-many tables
Genero_delete(pk) ==
    /\ pk \in Pks(generos)
    /\ generos' = {g \in generos : g.pk # pk}
    /\ artGeneros' = {x \in artGeneros : x[2] # pk}
    /\ agrGeneros' = {x \in agrGeneros : x[2] # pk}
    /\ last' = Op("Genero", "delete", pk, 0, "ok")
    /\ UNCHANGED <<users, lineas, profiles, agrupaciones, miembros, artImgs, grpImgs,
                   artSocial, grpSocial, nextPk, budget, wvars>>

\* a variant in which no Genero protects its line
Genero_linea_unprotected(linea) == FALSE

\* Genero.linea is on_delete=PROTECT: whether a Genero row protects the line
Genero_linea_protects(linea) == \E g \in generos : g.linea = linea

LineaArtistica_delete(pk) ==
    /\ pk \in lineas
    /\ IF Genero_linea_protects(pk)
       THEN /\ last' = Op("LineaArtistica", "delete", pk, 0, "ProtectedError")
            /\ UNCHANGED lineas
       ELSE /\ last' = Op("LineaArtistica", "delete", pk, 0, "ok")
            /\ lineas' = lineas \ {pk}
    /\ UNCHANGED <<users, generos, profiles, agrupaciones, miembros, artGeneros,
                   agrGeneros, artImgs, grpImgs, artSocial, grpSocial, nextPk, budget,
                   wvars>>

\* ------------------------------------------------------------- line scenario
\* Lines and genres are created, genres are moved between lines, and both are
\* deleted, one operation at a time, starting from empty tables.
InitLinea ==
    /\ users = {} /\ lineas = {} /\ generos = {}
    /\ profiles = {} /\ agrupaciones = {}
    /\ miembros = {} /\ artGeneros = {} /\ agrGeneros = {}
    /\ artImgs = {} /\ grpImgs = {} /\ artSocial = {} /\ grpSocial = {}
    /\ nextPk = InitPk(0, 0, 0, 0, 0)
    /\ budget = MaxLineaRows
    /\ last = NoOp
    /\ wpc = [w \in Writers |-> "idle"]
    /\ wloc = [w \in Writers |-> NoOp]

NextLinea ==
    \/ LineaArtistica_save(0)
    \/ \E l \in lineas : Genero_save(0, l)
    \/ \E g \in generos : \E l \in lineas : Genero_save(g.pk, l)
    \/ \E g \in generos : Genero_delete(g.pk)
    \/ \E l \in lineas : LineaArtistica_delete(l)

SpecLinea == InitLinea /\ [][NextLinea]_vars

GenerosHaveLinea == \A g \in generos : g.linea \in lineas

\* A step that deletes a LineaArtistica fails with ProtectedError and changes
\* neither table when a Genero references the line, and otherwise removes the line.
LineaDeleteProtected ==
    (last'.model = "LineaArtistica" /\ last'.op = "delete") =>
        IF \E g \in generos : g.linea = last'.pk
        THEN last'.res = "ProtectedError" /\ lineas' = lineas /\ generos' = generos
        ELSE last'.res = "ok" /\ lineas' = lineas \ {last'.pk} /\ generos' = generos

\* C5: deleting a LineaArtistica that at least one Genero references fails and
\* leaves the line and its genres unchanged; deleting an unreferenced one succeeds;
\* so every Genero always references an existing LineaArtistica.
C5_LineaProtected == [][LineaDeleteProtected /\ GenerosHaveLinea']_vars

\* C5 witness: the delete of a line that a Genero references has just been refused.
C5_Witness ==
    /\ last.model = "LineaArtistica" /\ last.op = "delete" /\ last.res = "ProtectedError"
    /\ last.pk \in lineas
    /\ \E g \in generos : g.linea = last.pk
\* ------------------------------------------ CustomUser, socials, membership
CustomUser_save(pk) ==
    /\ pk = 0 /\ budget > 0
    /\ users' = users \cup {nextPk.CustomUser}
    /\ nextPk' = [nextPk EXCEPT !.CustomUser = @ + 1]
    /\ budget' = budget - 1
    /\ last' = Op("CustomUser", "save", pk, 0, "ok")
    /\ UNCHANGED <<lineas, generos, profiles, agrupaciones, miembros, artGeneros,
                   agrGeneros, artImgs, grpImgs, artSocial, grpSocial, wvars>>

ArtistSocial_save(pk, artist) ==
    /\ pk = 0 /\ budget > 0
    /\ artSocial' = artSocial \cup {[pk |-> nextPk.ArtistSocial, artist |-> artist]}
    /\ nextPk' = [nextPk EXCEPT !.ArtistSocial = @ + 1]
    /\ budget' = budget - 1
    /\ last' = Op("ArtistSocial", "save", pk, artist, "ok")
    /\ UNCHANGED <<users, lineas, generos, profiles, agrupaciones, miembros, artGeneros,
                   agrGeneros, artImgs, grpImgs, grpSocial, wvars>>

GroupSocial_save(pk, agrupacion) ==
    /\ pk = 0 /\ budget > 0
    /\ grpSocial' = grpSocial \cup {[pk |-> nextPk.GroupSocial, agrupacion |-> agrupacion]}
    /\ nextPk' = [nextPk EXCEPT !.GroupSocial = @ + 1]
    /\ budget' = budget - 1
    /\ last' = Op("GroupSocial", "save", pk, agrupacion, "ok")
    /\ UNCHANGED <<users, lineas, generos, profiles, agrupaciones, miembros, artGeneros,
                   agrGeneros, artImgs, grpImgs, artSocial, wvars>>

\* agrupacion.miembros.add(artist) / agrupacion.miembros.remove(artist)
Agrupacion_miembros_add(pk, artist) ==
    /\ <<pk, artist>> \notin miembros
    /\ miembros' = miembros \cup {<<pk, artist>>}
    /\ last' = Op("Agrupacion", "miembros.add", pk, artist, "ok")
    /\ UNCHANGED <<users, lineas, generos, profiles, agrupaciones, artGeneros, agrGeneros,
                   artImgs, grpImgs, artSocial, grpSocial, nextPk, budget, wvars>>

Agrupacion_miembros_remove(pk, artist) ==
    /\ <<pk, artist>> \in miembros
    /\ miembros' = miembros \ {<<pk, artist>>}
    /\ last' = Op("Agrupacion", "miembros.remove", pk, artist, "ok")
    /\ UNCHANGED <<users, lineas, generos, profiles, agrupaciones, artGeneros, agrGeneros,
                   artImgs, grpImgs, artSocial, grpSocial, nextPk, budget, wvars>>

\* ---------------------------------------------------------- delete scenario
\* Two users exist, each with a profile and a group it administers, each profile a
\* member of the other user's group, every profile and group with one image and
\* one social link.  Rows are added and users, profiles and groups are deleted,
\* one operation at a time.
InitCascade ==
    /\ users = TwoUsers
    /\ profiles = TwoProfiles
    /\ agrupaciones = TwoAgrupaciones
    /\ miembros = {<<1, 2>>, <<2, 1>>}
    /\ lineas = {} /\ generos = {} /\ artGeneros = {} /\ agrGeneros = {}
    /\ artImgs = {[pk |-> 1, artist |-> 1], [pk |-> 2, artist |-> 2]}
    /\ grpImgs = {[pk |-> 1, agrupacion |-> 1], [pk |-> 2, agrupacion |-> 2]}
    /\ artSocial = {[pk |-> 1, artist |-> 1], [pk |-> 2, artist |-> 2]}
    /\ grpSocial = {[pk |-> 1, agrupacion |-> 1], [pk |-> 2, agrupacion |-> 2]}
    /\ nextPk = [InitPk(2, 0, 0, 2, 2) EXCEPT !.ArtistImage = 3, !.GroupImage = 3,
                                              !.ArtistSocial = 3, !.GroupSocial = 3]
    /\ budget = MaxRecords
    /\ last = NoOp
    /\ wpc = [w \in Writers |-> "idle"]
    /\ wloc = [w \in Writers |-> NoOp]

NextCascade ==
    \/ CustomUser_save(0)
    \/ \E u \in users : ArtistProfile_save(0, u)
    \/ \E u \in users : Agrupacion_save(0, <<"a">>, <<>>, u)
    \/ \E a \in profiles : ArtistImage_save(0, a.pk)
    \/ \E a \in profiles : ArtistSocial_save(0, a.pk)
    \/ \E g \in agrupaciones : GroupImage_save(0, g.pk)
    \/ \E g \in agrupaciones : GroupSocial_save(0, g.pk)
    \/ \E g \in agrupaciones : \E a \in profiles : Agrupacion_miembros_add(g.pk, a.pk)
    \/ \E g \in agrupaciones : \E a \in profiles : Agrupacion_miembros_remove(g.pk, a.pk)
    \/ \E u \in users : CustomUser_delete(u)
    \/ \E a \in profiles : ArtistProfile_delete(a.pk)
    \/ \E g \in agrupaciones : Agrupacion_delete(g.pk)

SpecCascade == InitCascade /\ [][NextCascade]_vars

\* no row references a row that is gone
NoDanglingReference ==
    /\ \A p \in profiles : p.user \in users
    /\ \A g \in agrupaciones : g.administrador \in users
    /\ \A m \in miembros : m[1] \in Pks(agrupaciones) /\ m[2] \in Pks(profiles)
    /\ \A i \in artImgs : i.artist \in Pks(profiles)
    /\ \A r \in artSocial : r.artist \in Pks(profiles)
    /\ \A i \in grpImgs : i.agrupacion \in Pks(agrupaciones)
    /\ \A r \in grpSocial : r.agrupacion \in Pks(agrupaciones)
    /\ \A x \in artGeneros : x[1] \in Pks(profiles)
    /\ \A x \in agrGeneros : x[1] \in Pks(agrupaciones)

\* A step that deletes a user removes the user, its profile, the groups it
\* administers, the images and socials of that profile and of those groups and
\* every membership of that profile or of those groups, and nothing else.
UserDeleteCascades ==
    (last'.model = "CustomUser" /\ last'.op = "delete") =>
        LET u == last'.pk
            P == {p.pk : p \in {q \in profiles : q.user = u}}
            G == {g.pk : g \in {h \in agrupaciones : h.administrador = u}}
        IN  /\ users' = users \ {u}
            /\ profiles' = {p \in profiles : p.user # u}
            /\ agrupaciones' = {g \in agrupaciones : g.administrador # u}
            /\ artImgs' = {i \in artImgs : i.artist \notin P}
            /\ artSocial' = {r \in artSocial : r.artist \notin P}
            /\ grpImgs' = {i \in grpImgs : i.agrupacion \notin G}
            /\ grpSocial' = {r \in grpSocial : r.agrupacion \notin G}
            /\ miembros' = {m \in miembros : m[1] \notin G /\ m[2] \notin P}

\* C6: deleting a CustomUser deletes its ArtistProfile, that profile's images and
\* socials, the Agrupaciones it administers with their images and socials, and the
\* profile's memberships; after any deletes no row references a deleted
\* CustomUser, ArtistProfile or Agrupacion.
C6_DeleteCascades == [][UserDeleteCascades /\ NoDanglingReference']_vars

\* C6 witness: user 1 has just been deleted; its profile, its group, their images,
\* socials and both cross memberships are gone while user 2's rows survive.
C6_Witness ==
    /\ last.model = "CustomUser" /\ last.op = "delete" /\ last.pk = 1
    /\ users = {2}
    /\ Pks(profiles) = {2} /\ Pks(agrupaciones) = {2}
    /\ miembros = {}
    /\ artImgs = {[pk |-> 2, artist |-> 2]} /\ grpImgs = {[pk |-> 2, agrupacion |-> 2]}
    /\ artSocial = {[pk |-> 2, artist |-> 2]}
    /\ grpSocial = {[pk |-> 2, agrupacion |-> 2]}
\* ------------------------------------------------------ concurrent writers
\* Each writer runs one save() at a time; the reads and the write of one save()
\* are separate statements against the shared tables, so other writers' steps
\* may fall between them.
WDone(model, owner, res) == [model |-> model, owner |-> owner, res |-> res]

\* ArtistImage.save of a new image, line 135: self.clean()
ArtistImage_save_clean(w, artist) ==
    LET r == ArtistImage_clean(0, artist)
    IN  /\ wpc[w] = "idle"
        /\ wpc' = [wpc EXCEPT ![w] = IF r = "ok" THEN "checked" ELSE "idle"]
        /\ wloc' = [wloc EXCEPT ![w] = WDone("ArtistImage", artist, IF r = "ok" THEN "" ELSE r)]
        /\ UNCHANGED <<dbvars, nextPk, budget, last>>

\* ArtistImage.save of a new image, line 136: super().save()
ArtistImage_save_write(w) ==
    /\ wpc[w] = "checked" /\ wloc[w].model = "ArtistImage"
    /\ ArtistImage_write(0, wloc[w].owner)
    /\ wpc' = [wpc EXCEPT ![w] = "idle"]
    /\ wloc' = [wloc EXCEPT ![w].res = "ok"]
    /\ UNCHANGED <<users, lineas, generos, profiles, agrupaciones, miembros, artGeneros,
                   agrGeneros, grpImgs, artSocial, grpSocial, last>>

\* GroupImage.save of a new image, line 158: self.clean()
GroupImage_save_clean(w, agrupacion) ==
    LET r == GroupImage_clean(0, agrupacion)
    IN  /\ wpc[w] = "idle"
        /\ wpc' = [wpc EXCEPT ![w] = IF r = "ok" THEN "checked" ELSE "idle"]
        /\ wloc' = [wloc EXCEPT ![w] = WDone("GroupImage", agrupacion, IF r = "ok" THEN "" ELSE r)]
        /\ UNCHANGED <<dbvars, nextPk, budget, last>>

\* GroupImage.save of a new image, line 159: super().save()
GroupImage_save_write(w) ==
    /\ wpc[w] = "checked" /\ wloc[w].model = "GroupImage"
    /\ GroupImage_write(0, wloc[w].owner)
    /\ wpc' = [wpc EXCEPT ![w] = "idle"]
    /\ wloc' = [wloc EXCEPT ![w].res = "ok"]
    /\ UNCHANGED <<users, lineas, generos, profiles, agrupaciones, miembros, artGeneros,
                   agrGeneros, artImgs, artSocial, grpSocial, last>>

\* ------------------------------------------------------- image race scenario
\* One artist and one group exist; NumWriters writers save new images for them.
InitImageRace ==
    /\ users = {1}
    /\ profiles = {[pk |-> 1, user |-> 1]}
    /\ agrupaciones = {[pk |-> 1, nombre |-> <<"a">>, slug |-> <<"a">>, administrador |-> 1]}
    /\ lineas = {} /\ generos = {} /\ miembros = {} /\ artGeneros = {} /\ agrGeneros = {}
    /\ artImgs = {} /\ grpImgs = {} /\ artSocial = {} /\ grpSocial = {}
    /\ nextPk = InitPk(1, 0, 0, 1, 1)
    /\ budget = MaxImages
    /\ last = NoOp
    /\ wpc = [w \in Writers |-> "idle"]
    /\ wloc = [w \in Writers |-> WDone("", 0, "")]

NextImageRace ==
    \/ \E w \in Writers : \E a \in profiles : ArtistImage_save_clean(w, a.pk)
    \/ \E w \in Writers : ArtistImage_save_write(w)
    \/ \E w \in Writers : \E g \in agrupaciones : GroupImage_save_clean(w, g.pk)
    \/ \E w \in Writers : GroupImage_save_write(w)

SpecImageRace == InitImageRace /\ [][NextImageRace]_vars

Pending(model, owner) ==
    Cardinality({w \in Writers : wpc[w] = "checked" /\ wloc[w].model = model
                                                  /\ wloc[w].owner = owner})

\* C7: the image-count check is check-then-write without a lock: writers that
\* each read a count below 5 all write, so an owner can exceed 5 images; the
\* count never exceeds 4 plus the number of writers, each writer adding at most
\* the one row whose check it passed on a count of at most 4.
C7_RaceOvershoot ==
    /\ \A a \in Pks(profiles) :
          ArtistCount(a) + Pending("ArtistImage", a) <= MaxImagenes - 1 + NumWriters
    /\ \A g \in Pks(agrupaciones) :
          GroupCount(g) + Pending("GroupImage", g) <= MaxImagenes - 1 + NumWriters

\* C7 witness: an owner has 6 images, both writers having just written a row for
\* it after passing the check.
C7_Witness ==
    /\ \A w \in Writers : wpc[w] = "idle" /\ wloc[w].res = "ok"
    /\ \/ \E a \in Pks(profiles) :
             /\ ArtistCount(a) = MaxImagenes + 1
             /\ \A w \in Writers : wloc[w].model = "ArtistImage" /\ wloc[w].owner = a
       \/ \E g \in Pks(agrupaciones) :
             /\ GroupCount(g) = MaxImagenes + 1
             /\ \A w \in Writers : wloc[w].model = "GroupImage" /\ wloc[w].owner = g
\* the locals of a writer inside Agrupacion.save of a new instance
WSlug(nombre, base, slug, counter, res) ==
    [nombre |-> nombre, base |-> base, slug |-> slug, counter |-> counter, res |-> res]

\* Agrupacion.save of a new instance with a blank slug, lines 96-99
Agrupacion_save_begin(w, nombre) ==
    LET base == Agrupacion_base(nombre)
    IN  /\ wpc[w] = "idle"
        /\ wpc' = [wpc EXCEPT ![w] = "probe"]
        /\ wloc' = [wloc EXCEPT ![w] = WSlug(nombre, base, base, 1, "")]
        /\ UNCHANGED <<dbvars, nextPk, budget, last>>

\* one evaluation of the while condition, line 100, with the loop body, lines
\* 101-102, when it holds and the assignment of line 103 when it does not
Agrupacion_save_probe(w) ==
    /\ wpc[w] = "probe"
    /\ IF Agrupacion_slug_exists(wloc[w].slug)
       THEN /\ wloc' = [wloc EXCEPT ![w].slug = wloc[w].base \o <<"-">> \o str(wloc[w].counter),
                                    ![w].counter = @ + 1]
            /\ UNCHANGED wpc
       ELSE /\ wpc' = [wpc EXCEPT ![w] = "write"]
            /\ UNCHANGED wloc
    /\ UNCHANGED <<dbvars, nextPk, budget, last>>

\* line 104: super().save(); an IntegrityError leaves save() uncaught
Agrupacion_save_write(w, administrador) ==
    /\ wpc[w] = "write"
    /\ Agrupacion_write(0, wloc[w].nombre, wloc[w].slug, administrador)
    /\ wpc' = [wpc EXCEPT ![w] = "idle"]
    /\ wloc' = [wloc EXCEPT ![w].res =
                   Agrupacion_write_result(nextPk.Agrupacion, wloc[w].slug)]
    /\ UNCHANGED <<users, lineas, generos, profiles, miembros, artGeneros, agrGeneros,
                   artImgs, grpImgs, artSocial, grpSocial, last>>

\* -------------------------------------------------------- slug race scenario
\* One user exists; NumWriters writers create groups with blank slugs.
RaceNombres == {<<"a">>, <<"A">>, <<"A", " ", "1">>, <<"!">>}

InitSlugRace ==
    /\ users = {1}
    /\ profiles = {} /\ agrupaciones = {}
    /\ lineas = {} /\ generos = {} /\ miembros = {} /\ artGeneros = {} /\ agrGeneros = {}
    /\ artImgs = {} /\ grpImgs = {} /\ artSocial = {} /\ grpSocial = {}
    /\ nextPk = InitPk(1, 0, 0, 0, 0)
    /\ budget = MaxAgrupaciones
    /\ last = NoOp
    /\ wpc = [w \in Writers |-> "idle"]
    /\ wloc = [w \in Writers |-> WSlug(<<>>, <<>>, <<>>, 1, "")]

NextSlugRace ==
    \/ \E w \in Writers : \E n \in RaceNombres : Agrupacion_save_begin(w, n)
    \/ \E w \in Writers : Agrupacion_save_probe(w)
    \/ \E w \in Writers : \E u \in users : Agrupacion_save_write(w, u)

SpecSlugRace == InitSlugRace /\ [][NextSlugRace]_vars

\* C10: slug generation is probe-then-write without a lock: a writer whose probed
\* slug was taken by another writer before its own write fails with an
\* IntegrityError that ends its save(), the slug it failed on being held by a
\* persisted row; no two persisted Agrupaciones ever share a slug.
C10_RaceKeepsSlugsUnique ==
    /\ SlugsDistinct
    /\ \A w \in Writers :
          (wpc[w] = "idle" /\ wloc[w].res = "IntegrityError") =>
              \E g \in agrupaciones : g.slug = wloc[w].slug

\* C10 witness: two writers saved groups of the same name, both probed the same
\* slug as free, one wrote it and the other has just failed with IntegrityError.
C10_Witness ==
    \E w \in Writers : \E v \in Writers :
        /\ w # v
        /\ wpc[w] = "idle" /\ wloc[w].res = "IntegrityError"
        /\ wpc[v] = "idle" /\ wloc[v].res = "ok"
        /\ wloc[v].nombre = wloc[w].nombre /\ wloc[v].slug = wloc[w].slug
        /\ wloc[w].slug = wloc[w].base
====
